---- MODULE Spec2Model ----
(***************************************************************************)
(* Model of the Poisson-disk validation harness of poisson/tests:          *)
(*   helper/mod.rs  test_with_samples_prefilled, test_algo, test_poisson,  *)
(*                  assert_legal_poisson                                   *)
(*   validity.rs    multiple_too_close_invalid                             *)
(*                                                                         *)
(* Points are vectors of integers: a coordinate c of the model stands for  *)
(* the real coordinate c / Unit, so the unit hypercube [0,1)^d is          *)
(* 0 <= c < Unit on every axis, and a radius r of the model stands for     *)
(* r / Unit.  Distances are compared by their squares, which is exact on   *)
(* this grid.  Option<T> is a sequence of length 0 (None) or 1 (Some).     *)
(***************************************************************************)
EXTENDS Integers, Sequences, FiniteSets, TLC

VARIABLES
    pc,            \* position of the harness
    algo,          \* algorithm of the current test_algo pass
    i,             \* run index of the for loop of test_algo
    seeds,         \* parameter seeds
    valid,         \* parameter valid : When
    ptype,         \* parameter ptype / poisson_type : Type
    dim,           \* T::dimension()
    radius,        \* poisson_iter.radius()
    seed,          \* the 32 seed bytes of the current run
    adapter,       \* poisson_iter, the algorithm under test
    poisson,       \* points pulled from poisson_iter
    prefilled,     \* candidates yielded by the injection policy
    last,          \* Option: the most recently emitted point
    does_prefill,  \* whether the policy yielded a candidate in this run
    iter,          \* the iterator handed to test_poisson
    vecs,          \* test_poisson: the elements drained
    hints,         \* test_poisson: the hints recorded
    tiled,         \* test_poisson: vecs after the periodic expansion
    outcome,       \* "none", "ok", or the assertion that failed
    derived,       \* history: <<run index, seed>> of the runs passed over
    runs,          \* history: <<algorithm, run index>> of every run started
    prefiller,     \* parameter prefiller: the injector configured
    prefill,       \* the injection policy of the run, with what it captured
    calls,         \* history: the calls of prefiller and prefill in this run
    report,        \* what the failure message of the run names
    first          \* the record of a run that is being repeated

vars == <<pc, algo, i, seeds, valid, ptype, dim, radius, seed, adapter, poisson,
          prefilled, last, does_prefill, iter, vecs, hints, tiled, outcome,
          derived, runs, prefiller, prefill, calls, report, first>>

----------------------------------------------------------------------------
(* Bounds of the model *)

\* points emitted plus candidates injected in one run
MaxOps == 3

\* the parameter seeds
MaxSeeds == 2

\* elements of an iterator handed to test_poisson on its own
MaxLen == 2

\* largest bound such an iterator reports in a size hint
MaxHint == 1

\* the radius of a run, in grid steps
Radius == 1

\* run indices 0 .. MaxIdx and 2^16 .. 2^16 + MaxIdx of the seed derivation
MaxIdx == 3

(* Grid steps per unit of length, and the largest dimension instantiated *)
Unit == 4

MaxDim == 2

----------------------------------------------------------------------------
(* Vectors *)

Coords == -1 .. Unit

Points(d) == [1 .. d -> Coords]

Dims == 1 .. MaxDim

VAdd(v, t) == [n \in DOMAIN v |-> v[n] + t[n]]

RECURSIVE SumSq(_, _, _)
SumSq(v, w, n) ==
    IF n = 0 THEN 0
    ELSE (v[n] - w[n]) * (v[n] - w[n]) + SumSq(v, w, n - 1)

\* (v1 - v2).norm(), squared
Dist2(v1, v2) == SumSq(v1, v2, Len(v1))

Range(s) == {s[n] : n \in DOMAIN s}

Min(S) == CHOOSE x \in S : \A y \in S : x <= y

----------------------------------------------------------------------------
(* test_algo: seed derivation (helper/mod.rs 102-108) *)

primes == <<3, 7, 13, 19, 29, 37, 43, 53, 61, 71, 79, 89, 101, 107, 113, 131>>

offsets == <<2741, 2729, 2713, 2707, 2693, 2687, 2677, 2663, 2657, 2633, 2609,
             2591, 2557, 2549, 2539, 2521>>

\* The low 16 bits of i * primes[j] + offsets[j] on u32 (j counted from 1):
\* the two casts below read no other bit, and 2^16 divides 2^32, so the
\* reduction agrees with the wrapping u32 value on those bits.
Mix(idx, j) == ((idx % (2 ^ 16)) * primes[j] + offsets[j]) % (2 ^ 16)

\* seed[j] = (..) as u8 ; seed[j + 16] = ((..) >> 8) as u8
SeedByte(idx, b) ==
    IF b <= 16 THEN Mix(idx, b) % (2 ^ 8)
    ELSE (Mix(idx, b - 16) \div (2 ^ 8)) % (2 ^ 8)

\* variant: the seed moves on with every run started in the process
SeedByRuns(idx) == [b \in 1 .. 32 |-> SeedByte(idx + Len(runs), b)]

Seed(idx) == [b \in 1 .. 32 |-> SeedByte(idx, b)]

----------------------------------------------------------------------------
(* The algorithm under test: Builder::build(..).into_iter(), an external   *)
(* collaborator known by its contract only.                                *)

\* the size hint an algorithm may report after every pull of a run: none
\* left, or one left
GenHints == {[low |-> n, high |-> <<n>>] : n \in {0, 1}}

\* a generator that reports the hint h after each pull
NewAdapter(h) ==
    [emitted |-> <<>>, restricted |-> <<>>, hint |-> h, hints |-> <<>>, log |-> <<>>]

\* the translated copies of q that count as occupied for the domain type
Images(q, t, d) ==
    IF t = "Perioditic"
    THEN {VAdd(q, [n \in 1 .. d |-> o[n] * Unit]) : o \in [1 .. d -> {-1, 0, 1}]}
    ELSE {q}

StaysLegal(ad, p, r, t, d) ==
    \A q \in Range(ad.emitted) \cup Range(ad.restricted) :
        \A q2 \in Images(q, t, d) : Dist2(p, q2) > (2 * r) * (2 * r)

Restrict(ad, p) ==
    [ad EXCEPT !.restricted = Append(@, p),
               !.log = Append(@, [op |-> "restrict", p |-> p, res |-> TRUE])]

Queried(ad, p, res) ==
    [ad EXCEPT !.log = Append(@, [op |-> "stays_legal", p |-> p, res |-> res])]

Emit(ad, p) ==
    [ad EXCEPT !.emitted = Append(@, p),
               !.hints = Append(@, ad.hint),
               !.log = Append(@, [op |-> "next", p |-> p, res |-> TRUE])]

Exhaust(ad) ==
    [ad EXCEPT !.log = Append(@, [op |-> "next", p |-> <<>>, res |-> FALSE])]

----------------------------------------------------------------------------
(* The injectors: any policy at all, |_| |_| None of test_with_samples, and *)
(* the policy of multiple_too_close_invalid                                *)

Prefillers == {"any", "none", "too_close"}

\* (prefiller)(poisson_iter.radius()): the policy and what it captured
NewPolicy(f, r) == [kind |-> f, radius |-> r, last |-> <<>>]

\* v + vec * rand.random::<f64>() * radius, with vec of unit length and the
\* random factor in [0, 1): the points at a distance less than radius from v
Near(v, r) ==
    {p \in [DOMAIN v -> (-1 - r) .. (Unit + r)] : Dist2(p, v) < r * r}

\* variant: the policy does not remember the point it was called with
TooCloseForgetful(pol, v) ==
    IF v = <<>> THEN {<<<<>>, pol>>}
    ELSE {<<<<p>>, pol>> : p \in Near(v[1], pol.radius)}

\* validity.rs 27-39: the pairs <<value returned, policy afterwards>>
TooClose(pol, v) ==
    IF v = <<>> THEN {<<<<>>, pol>>}
    ELSE IF pol.last = v THEN {<<<<>>, pol>>}
    ELSE {<<<<p>>, [pol EXCEPT !.last = v]>> : p \in Near(v[1], pol.radius)}

\* (prefill)(v): the pairs <<value returned, policy afterwards>>
PolicyCall(pol, v, d) ==
    CASE pol.kind = "none" -> {<<<<>>, pol>>}
      [] pol.kind = "too_close" -> TooClose(pol, v)
      [] OTHER -> {<<r, pol>> : r \in {<<>>} \cup {<<p>> : p \in Points(d)}}

----------------------------------------------------------------------------
(* test_algo: the prefill check and the final validation set *)

\* variant: the flag is raised at every call of the policy
RaisedAlways(ret, flag) == TRUE

\* does_prefill = true, in the body of the while let
Raised(ret, flag) == IF ret # <<>> THEN TRUE ELSE flag

\* variant: the list is declared outside the for loop
Kept(old) == old

\* let mut prefilled = vec![], in the body of the for loop
Fresh(old) == <<>>

\* variant: last is never assigned
LastNeverSet(pp) == <<>>

\* last = Some(pp)
LastAfterPull(pp) == <<pp>>

\* variant: the Never arm asserts nothing
PrefillCheckNeverUnchecked(v, legal) ==
    CASE v = "Always" -> legal
      [] OTHER -> TRUE

\* match valid { Always => assert!(stays_legal), Never => assert!(!stays_legal), _ => {} }
PrefillCheck(v, legal) ==
    CASE v = "Always" -> legal
      [] v = "Never" -> ~legal
      [] OTHER -> TRUE

\* whether stays_legal is called at all
Consults(v) == v \in {"Always", "Never"}

\* variant: the prefilled points are chained whatever valid is
FinalSetAlways(emitted, pre, v) == emitted \o pre

\* poisson.into_iter().chain(if let Always = valid { prefilled } else { vec![] })
FinalSet(emitted, pre, v) ==
    emitted \o (IF v = "Always" THEN pre ELSE <<>>)

\* Chain<vec::IntoIter, vec::IntoIter>: after the n-th element the size hint
\* is exact, (k, Some(k)) with k the number of elements left
ChainIter(s) ==
    [n \in 1 .. Len(s) |->
        [v |-> s[n], hint |-> [low |-> Len(s) - n, high |-> <<Len(s) - n>>]]]

\* variant: a failed run is caught and the loop goes on
ContinuesAfterCatch(p) == p \in {"run_passed", "panicked"}

\* the for loop of test_algo is resumed only when test_poisson returns
ContinuesAfter(p) == p = "run_passed"

----------------------------------------------------------------------------
(* test_poisson (helper/mod.rs 162-226) *)

\* positions (from 1) of the elements whose size hint has no upper bound
NoHigh(it) == {n \in 1 .. Len(it) : it[n].hint.high = <<>>}

\* number of elements drained before the loop ends or panics
Drained(it) == IF NoHigh(it) = {} THEN Len(it) ELSE Min(NoHigh(it)) - 1

DrainHints(it) ==
    [n \in 1 .. Drained(it) |-> <<it[n].hint.low, it[n].hint.high[1]>>]

DrainVecs(it) == [n \in 1 .. Drained(it) |-> it[n].v]

\* variant: remaining = len - n
RemainingOffByOne(len, n) == len - n

\* remaining = len - (n + 1), n counted from 0
Remaining(len, n) == len - (n + 1)

LowerOk(h, len, n) == h[1] <= Remaining(len, n)

UpperOk(h, len, n) == h[2] >= Remaining(len, n)

\* the 0-based indices whose hint fails one of the two assertions
BadHints(hs) ==
    {n \in 0 .. Len(hs) - 1 :
        ~(LowerOk(hs[n + 1], Len(hs), n) /\ UpperOk(hs[n + 1], Len(hs), n))}

\* variant: assert!(v[n] <= 1)
InRangeClosed(v) == \A n \in DOMAIN v : v[n] >= 0 /\ v[n] <= Unit

\* assert!(v[n] >= 0); assert!(v[n] < 1)
InRange(v) == \A n \in DOMAIN v : v[n] >= 0 /\ v[n] < Unit

\* variant: t[i] = rem, without the shift by one
RECURSIVE DigitsUnshifted(_, _)
DigitsUnshifted(div, k) ==
    IF k = 0 THEN <<>>
    ELSE <<div % 3>> \o DigitsUnshifted(div \div 3, k - 1)

\* the digits of n in base 3, least significant first, each less one
RECURSIVE Digits(_, _)
Digits(div, k) ==
    IF k = 0 THEN <<>>
    ELSE <<(div % 3) - 1>> \o Digits(div \div 3, k - 1)

\* t of the n-th pass: one full unit per axis
Offset(n, d) == [a \in 1 .. d |-> Digits(n, d)[a] * Unit]

\* for n in 0..3^d { for v in &vecs { vecs2.push(*v + t) } }
Tile(vs, d) ==
    [x \in 1 .. (3 ^ d) * Len(vs) |->
        VAdd(vs[((x - 1) % Len(vs)) + 1], Offset((x - 1) \div Len(vs), d))]

Expand(vs, t, d) == IF t = "Perioditic" THEN Tile(vs, d) ELSE vs

\* variant: dist >= radius * 2
SeparatedOrTouching(v1, v2, r) == Dist2(v1, v2) >= (r * 2) * (r * 2)

\* dist > radius * 2
Separated(v1, v2, r) == Dist2(v1, v2) > (r * 2) * (r * 2)

\* assert_legal_poisson: equal vectors are skipped
assert_legal_poisson(vs, r) ==
    \A a \in DOMAIN vs : \A b \in DOMAIN vs :
        vs[a] = vs[b] \/ Separated(vs[a], vs[b], r)

\* variant: the position is counted from 1
HintPositionFromOne(it) == Drained(it) + 1

\* hints.len() when the panic of line 179 is raised
HintPosition(it) == Drained(it)

\* variant: the range is checked for the bounded domain only
RangeCheckedBounded(pre, t) == ~pre /\ t = "Normal"

\* if !does_prefill, whatever poisson_type is
RangeChecked(pre, t) == ~pre

\* what the message of the panic of line 179 names
Named(it, o, a) ==
    IF o = "no_hint" THEN <<HintPosition(it), a>> ELSE <<>>

\* the first assertion of test_poisson that fails, or "ok"
Verdict(it, r, t, d, pre) ==
    LET hs == DrainHints(it)
        vs == DrainVecs(it)
    IN  IF NoHigh(it) # {} THEN "no_hint"
        ELSE IF BadHints(hs) # {}
             THEN (IF ~LowerOk(hs[Min(BadHints(hs)) + 1], Len(hs), Min(BadHints(hs)))
                   THEN "hint_lower" ELSE "hint_upper")
        ELSE IF RangeChecked(pre, t) /\ (\E n \in DOMAIN vs : ~InRange(vs[n]))
             THEN "out_of_range"
        ELSE IF ~assert_legal_poisson(Expand(vs, t, d), r) THEN "too_close"
        ELSE "ok"

\* whether the expansion (lines 204-222) was reached
Expanded(o) == o \in {"ok", "too_close"}

----------------------------------------------------------------------------
(* State machine of test_with_samples_prefilled *)

Whens == {"Always", "Sometimes", "Never"}

Types == {"Normal", "Perioditic"}

\* the parameters of test_with_samples_prefilled
params == <<seeds, valid, ptype, dim, radius, prefiller>>

\* the locals of test_poisson
checked == <<iter, vecs, hints, tiled, outcome, report>>

\* the locals of one iteration of the for loop, before they are created
NoRun ==
    /\ seed = <<>>
    /\ adapter = <<>>
    /\ poisson = <<>>
    /\ prefilled = <<>>
    /\ prefill = <<>>
    /\ last = <<>>
    /\ does_prefill = FALSE
    /\ calls = <<>>

\* the locals of test_poisson, before it is called
NoCheck ==
    /\ iter = <<>>
    /\ vecs = <<>>
    /\ hints = <<>>
    /\ tiled = <<>>
    /\ outcome = "none"
    /\ report = <<>>

Init ==
    /\ pc = "loop"
    /\ algo = "Ebeida"
    /\ i = 0
    /\ seeds = MaxSeeds
    /\ valid \in Whens
    /\ ptype \in Types
    /\ dim = 1           \* the driver is run on vectors of one dimension
    /\ radius = Radius
    /\ prefiller = "any"
    /\ NoRun
    /\ NoCheck
    /\ derived = {}
    /\ runs = <<>>
    /\ first = <<>>

\* A generator and a policy are deterministic: in a run that repeats the
\* recorded one they answer as they did, as long as they are built from the
\* same seed and asked the same things.

\* the hint policy h of the generator built from the seed s
GenBuilt(s, h) ==
    first # <<>> /\ s = first.seed => h = first.hint

\* the answer ans of poisson_iter.next()
GenAnswers(ans) ==
    LET k == Len(adapter.log) + 1
    IN  (/\ first # <<>>
         /\ seed = first.seed
         /\ k <= Len(first.log)
         /\ SubSeq(first.log, 1, k - 1) = adapter.log
         /\ first.log[k].op = "next")
        => ans = (IF first.log[k].res THEN <<first.log[k].p>> ELSE <<>>)

\* the answer ret of (prefill)(last)
PolicyAnswers(ret) ==
    LET k == Len(calls) + 1
    IN  (/\ first # <<>>
         /\ k <= Len(first.calls)
         /\ SubSeq(first.calls, 1, k - 1) = calls
         /\ first.calls[k].arg = last)
        => ret = first.calls[k].ret

\* for i in 0..seeds, in test_algo(.., Ebeida) and then test_algo(.., Bridson)
LoopHead ==
    /\ pc = "loop"
    /\ IF i < seeds
       THEN pc' = "seed" /\ UNCHANGED <<algo, i>>
       ELSE IF algo = "Ebeida"
            THEN pc' = "loop" /\ algo' = "Bridson" /\ i' = 0
            ELSE pc' = "done" /\ UNCHANGED <<algo, i>>
    /\ UNCHANGED <<params, seed, adapter, poisson, prefilled, last, does_prefill,
                   prefill, calls, checked, derived, runs, first>>

\* lines 101-116: the seed, the generator, the policy and the locals of the run
StartRun ==
    /\ pc = "seed"
    /\ seed' = Seed(i)
    /\ \E h \in GenHints : GenBuilt(seed', h) /\ adapter' = NewAdapter(h)
    /\ poisson' = <<>>
    /\ prefilled' = Fresh(prefilled)
    /\ prefill' = NewPolicy(prefiller, radius)
    /\ calls' = <<[op |-> "prefiller", arg |-> <<radius>>, ret |-> <<>>, at |-> 0]>>
    /\ last' = <<>>
    /\ does_prefill' = FALSE
    /\ runs' = Append(runs, <<algo, i>>)
    /\ pc' = "inject"
    /\ UNCHANGED <<algo, i, params, checked, derived, first>>

\* (prefill)(last) returning c[1] and leaving the policy c[2]
Called(c) ==
    /\ PolicyAnswers(c[1])
    /\ prefill' = c[2]
    /\ calls' = Append(calls, [op |-> "prefill", arg |-> last, ret |-> c[1],
                               at |-> Len(adapter.log)])
    /\ does_prefill' = Raised(c[1], does_prefill)

\* lines 118-140: the policy yields a candidate
InjectSome ==
    /\ pc = "inject"
    /\ prefill.kind = "any" => Len(poisson) + Len(prefilled) < MaxOps
    /\ \E c \in PolicyCall(prefill, last, dim) :
         /\ c[1] # <<>>
         /\ Called(c)
         /\ LET p == c[1][1]
                legal == StaysLegal(adapter, p, radius, ptype, dim)
                asked == IF Consults(valid) THEN Queried(adapter, p, legal)
                         ELSE adapter
            IN  IF PrefillCheck(valid, legal)
                THEN /\ prefilled' = Append(prefilled, p)
                     /\ adapter' = Restrict(asked, p)
                     /\ pc' = "inject"
                     /\ UNCHANGED outcome
                ELSE /\ adapter' = asked
                     /\ pc' = "panicked"
                     /\ outcome' = IF valid = "Always" THEN "prefill_rejected"
                                   ELSE "prefill_allowed"
                     /\ UNCHANGED prefilled
    /\ UNCHANGED <<algo, i, params, seed, poisson, last, iter, vecs, hints, tiled,
                   report, derived, runs, first>>

\* line 118: the policy yields nothing
InjectNone ==
    /\ pc = "inject"
    /\ \E c \in PolicyCall(prefill, last, dim) :
         /\ c[1] = <<>>
         /\ Called(c)
    /\ pc' = "pull"
    /\ UNCHANGED <<algo, i, params, seed, adapter, poisson, prefilled, last,
                   checked, derived, runs, first>>

\* lines 141-143: poisson_iter.next() yields a point
PullSome ==
    /\ pc = "pull"
    /\ Len(poisson) + Len(prefilled) < MaxOps
    /\ \E pp \in Points(dim) :
         /\ GenAnswers(<<pp>>)
         /\ adapter' = Emit(adapter, pp)
         /\ last' = LastAfterPull(pp)
         /\ poisson' = Append(poisson, pp)
    /\ pc' = "inject"
    /\ UNCHANGED <<algo, i, params, seed, prefilled, does_prefill, prefill, calls,
                   checked, derived, runs, first>>

\* lines 162-226: test_poisson(poisson, radius, poisson_type, algo, does_prefill)
\* on the iterator it
Checks(it) ==
    /\ outcome' = Verdict(it, radius, ptype, dim, does_prefill)
    /\ report' = Named(it, outcome', algo)
    /\ hints' = DrainHints(it)
    /\ vecs' = DrainVecs(it)
    /\ tiled' = IF Expanded(outcome') THEN Expand(vecs', ptype, dim) ELSE <<>>
    /\ pc' = IF outcome' = "ok" THEN "run_passed" ELSE "panicked"

\* lines 144-158: poisson_iter.next() yields None; the validation set is
\* chained and handed to test_poisson
PullNone ==
    /\ pc = "pull"
    /\ GenAnswers(<<>>)
    /\ adapter' = Exhaust(adapter)
    /\ iter' = ChainIter(FinalSet(poisson, prefilled, valid))
    /\ Checks(iter')
    /\ UNCHANGED <<algo, i, params, seed, poisson, prefilled, last, does_prefill,
                   prefill, calls, derived, runs, first>>

\* test_poisson called with the iterator iter
test_poisson ==
    /\ pc = "test_poisson"
    /\ Checks(iter)
    /\ UNCHANGED <<algo, i, params, seed, adapter, poisson, prefilled, last,
                   does_prefill, prefill, calls, iter, derived, runs, first>>

\* the end of the body of the for loop: the locals of the iteration are gone
Dropped ==
    /\ seed' = <<>>
    /\ adapter' = <<>>
    /\ poisson' = <<>>
    /\ prefilled' = Fresh(prefilled)
    /\ prefill' = <<>>
    /\ calls' = <<>>
    /\ last' = <<>>
    /\ does_prefill' = FALSE
    /\ iter' = <<>>
    /\ vecs' = <<>>
    /\ hints' = <<>>
    /\ tiled' = <<>>
    /\ outcome' = "none"
    /\ report' = <<>>

\* lines 158-159, 100: test_poisson returned; the locals go out of scope
LoopNext ==
    /\ ContinuesAfter(pc)
    /\ i' = i + 1
    /\ pc' = "loop"
    /\ Dropped
    /\ UNCHANGED <<algo, params, derived, runs, first>>

Next ==
    \/ LoopHead
    \/ StartRun
    \/ InjectSome
    \/ InjectNone
    \/ PullSome
    \/ PullNone
    \/ LoopNext

Spec == Init /\ [][Next]_vars

----------------------------------------------------------------------------
(* test_poisson called on its own, with an iterator of at most MaxLen       *)
(* elements, each with the size hint reported after it: any hints over     *)
(* points of one dimension, and the exact hints of a Vec over points of    *)
(* every dimension.                                                        *)

HintSet ==
    {[low |-> l, high |-> h] :
        l \in 0 .. MaxHint, h \in {<<>>} \cup {<<n>> : n \in 0 .. MaxHint}}

Items(d) == [v : Points(d), hint : HintSet]

HintedSeqs == UNION {[1 .. n -> Items(1)] : n \in 0 .. MaxLen}

ExactSeqs(d) == {ChainIter(s) : s \in UNION {[1 .. n -> Points(d)] : n \in 0 .. MaxLen}}

IterSeqs(d) == (IF d = 1 THEN HintedSeqs ELSE {}) \cup ExactSeqs(d)

InitPoisson ==
    /\ pc = "test_poisson"
    /\ algo = "Ebeida"
    /\ i = 0
    /\ seeds = 0
    /\ valid = "Sometimes"
    /\ ptype \in Types
    /\ \E d \in Dims : dim = d /\ iter \in IterSeqs(d)
    /\ radius = Radius
    /\ prefiller = "any"
    /\ seed = <<>>
    /\ adapter = <<>>
    /\ poisson = <<>>
    /\ prefilled = <<>>
    /\ prefill = <<>>
    /\ calls = <<>>
    /\ last = <<>>
    /\ does_prefill \in BOOLEAN
    /\ vecs = <<>>
    /\ hints = <<>>
    /\ tiled = <<>>
    /\ outcome = "none"
    /\ report = <<>>
    /\ derived = {}
    /\ runs = <<>>
    /\ first = <<>>

NextPoisson == test_poisson

SpecPoisson == InitPoisson /\ [][NextPoisson]_vars

----------------------------------------------------------------------------
(* The seed derivation of test_algo on its own: the run indices are drawn  *)
(* from 0 .. MaxIdx and 2^16 .. 2^16 + MaxIdx, and the body of a run, like *)
(* the runs in between, is passed over.                                    *)

SeedIdx == (0 .. MaxIdx) \cup {2 ^ 16 + k : k \in 0 .. MaxIdx}

InitSeed ==
    /\ pc = "seed"
    /\ algo = "Ebeida"
    /\ i \in SeedIdx
    /\ seeds = 2 ^ 16 + MaxIdx + 1
    /\ valid = "Sometimes"
    /\ ptype = "Normal"
    /\ dim = 1
    /\ radius = Radius
    /\ prefiller = "any"
    /\ NoRun
    /\ NoCheck
    /\ derived = {}
    /\ runs = <<>>
    /\ first = <<>>

\* the rest of the run, and the runs up to a later index; the seed of the
\* run is remembered
SkipRuns ==
    /\ pc = "inject"
    /\ \E k \in SeedIdx : k > i /\ i' = k
    /\ derived' = derived \cup {<<i, seed>>}
    /\ pc' = "seed"
    /\ seed' = <<>>
    /\ adapter' = <<>>
    /\ prefill' = <<>>
    /\ calls' = <<>>
    /\ UNCHANGED <<algo, params, poisson, prefilled, last, does_prefill, checked,
                   runs, first>>

NextSeed ==
    \/ StartRun
    \/ SkipRuns

SpecSeed == InitSeed /\ [][NextSeed]_vars

----------------------------------------------------------------------------
(* test_with_samples next to test_with_samples_prefilled: one run of       *)
(* test_algo with the injector |_| |_| None and any mode is recorded when  *)
(* it ends, and the same run is carried out by test_with_samples, which    *)
(* passes |_| |_| None and When::Always.                                   *)

InitSamples ==
    /\ pc = "seed"
    /\ algo \in {"Ebeida", "Bridson"}
    /\ i \in 0 .. MaxSeeds - 1
    /\ seeds = MaxSeeds
    /\ valid \in Whens
    /\ ptype \in Types
    /\ dim = 1
    /\ radius = Radius
    /\ prefiller = "none"
    /\ NoRun
    /\ NoCheck
    /\ derived = {}
    /\ runs = <<>>
    /\ first = <<>>

\* what a run that is over did
Record ==
    [seed |-> seed, hint |-> adapter.hint, log |-> adapter.log, calls |-> calls,
     poisson |-> poisson, prefilled |-> prefilled, hints |-> adapter.hints,
     iter |-> iter, outcome |-> outcome, valid |-> valid,
     does_prefill |-> does_prefill]

\* the run is over; it is recorded, and test_with_samples starts the same run
RunSamples ==
    /\ pc \in {"run_passed", "panicked"}
    /\ first = <<>>
    /\ first' = Record
    /\ valid' = "Always"
    /\ prefiller' = "none"
    /\ pc' = "seed"
    /\ Dropped
    /\ UNCHANGED <<algo, i, seeds, ptype, dim, radius, derived, runs>>

NextSamples ==
    \/ StartRun
    \/ InjectNone
    \/ PullSome
    \/ PullNone
    \/ RunSamples

SpecSamples == InitSamples /\ [][NextSamples]_vars

----------------------------------------------------------------------------
(* One run of multiple_too_close_invalid: vectors of two dimensions, the   *)
(* bounded domain, When::Never and the policy of validity.rs 21-40         *)

InitTooClose ==
    /\ pc = "seed"
    /\ algo \in {"Ebeida", "Bridson"}
    /\ i = 0
    /\ seeds = MaxSeeds
    /\ valid = "Never"
    /\ ptype = "Normal"
    /\ dim = MaxDim
    /\ radius = Radius
    /\ prefiller = "too_close"
    /\ NoRun
    /\ NoCheck
    /\ derived = {}
    /\ runs = <<>>
    /\ first = <<>>

NextTooClose ==
    \/ StartRun
    \/ InjectSome
    \/ InjectNone
    \/ PullSome
    \/ PullNone

SpecTooClose == InitTooClose /\ [][NextTooClose]_vars

----------------------------------------------------------------------------
(* One run of test_algo carried out twice, as by two invocations of the    *)
(* test: the first is recorded when it ends, by passing or by a panic, and *)
(* the same run is started again.                                          *)

InitTwice ==
    /\ pc = "seed"
    /\ algo \in {"Ebeida", "Bridson"}
    /\ i = MaxSeeds - 1      \* the last run of a pass
    /\ seeds = MaxSeeds
    /\ valid \in Whens
    /\ ptype \in Types
    /\ dim = 1
    /\ radius = Radius
    /\ prefiller = "any"
    /\ NoRun
    /\ NoCheck
    /\ derived = {}
    /\ runs = <<>>
    /\ first = <<>>

\* the run is over; what it did is recorded and it is started again
RunAgain ==
    /\ pc \in {"run_passed", "panicked"}
    /\ first = <<>>
    /\ first' = Record
    /\ pc' = "seed"
    /\ Dropped
    /\ UNCHANGED <<algo, i, params, derived, runs>>

NextTwice ==
    \/ StartRun
    \/ InjectSome
    \/ InjectNone
    \/ PullSome
    \/ PullNone
    \/ RunAgain

SpecTwice == InitTwice /\ [][NextTwice]_vars

----------------------------------------------------------------------------
(* Properties *)

\* test_poisson has run and is over
Checked == pc \in {"run_passed", "panicked"} /\ outcome \notin {"none", "prefill_rejected", "prefill_allowed"}

\* the number of positions of s that hold x
Count(s, x) == Cardinality({n \in DOMAIN s : s[n] = x})

\* C1 (SpecPoisson): once the distance validator is reached, the run passes
\* if and only if every two points of the validation set (tiled when the
\* domain is periodic) that differ in some coordinate lie at a distance
\* strictly greater than 2 * radius; a pair at 2 * radius or less fails it.
C1_Separation ==
    (Checked /\ outcome \in {"ok", "too_close"}) =>
        (outcome = "ok" <=>
            \A a \in DOMAIN tiled : \A b \in DOMAIN tiled :
                tiled[a] # tiled[b] =>
                    Dist2(tiled[a], tiled[b]) > 4 * radius * radius)

C1_Witness ==
    /\ pc = "run_passed"
    /\ ptype = "Perioditic"
    /\ Len(vecs) >= 2
    /\ vecs[1] # vecs[2]

\* C2 (Spec), the claim as stated: a run passes only if every hint the
\* generator reported at a pull is consistent with the number of points it
\* produced afterwards.
C2_GeneratorHintsAudited ==
    pc = "run_passed" =>
        \A n \in DOMAIN adapter.hints :
            /\ adapter.hints[n].low <= Len(poisson) - n
            /\ adapter.hints[n].high[1] >= Len(poisson) - n

\* C3 (SpecPoisson): when every element came with an upper bound, the hint
\* assertions pass if and only if for every 0-based index n the hint
\* recorded after pull n has lower(n) <= len - (n + 1) <= upper(n).
C3_HintSoundness ==
    (Checked /\ outcome # "no_hint") =>
        (outcome \notin {"hint_lower", "hint_upper"} <=>
            \A n \in 0 .. Len(hints) - 1 :
                /\ hints[n + 1][1] <= Len(hints) - (n + 1)
                /\ Len(hints) - (n + 1) <= hints[n + 1][2])

C3_Witness ==
    /\ outcome = "ok"
    /\ Len(hints) >= 2
    /\ hints[1][1] < hints[1][2]

\* the points the generator holds before the k-th operation of its log
HeldBefore(log, k) ==
    {log[j].p : j \in {x \in 1 .. k - 1 : log[x].op = "restrict" \/ (log[x].op = "next" /\ log[x].res)}}

RECURSIVE RestrictedIn(_)
RestrictedIn(log) ==
    IF log = <<>> THEN <<>>
    ELSE IF log[1].op = "restrict" THEN <<log[1].p>> \o RestrictedIn(Tail(log))
    ELSE RestrictedIn(Tail(log))

\* C4 (Spec): every candidate is first checked with stays_legal against the
\* generator holding all points emitted and restricted so far (the result
\* must be true under Always, false under Never; no call under Sometimes);
\* a failed check ends the run with the candidate neither recorded nor
\* restricted; a passed check is followed at once by one restrict of the
\* candidate, and the restricted candidates are the prefilled list.
C4_PrefillStep ==
    pc \in {"inject", "pull", "run_passed", "panicked"} =>
        LET log == adapter.log
        IN  /\ RestrictedIn(log) = prefilled
            /\ valid = "Sometimes" => \A k \in DOMAIN log : log[k].op # "stays_legal"
            /\ \A k \in DOMAIN log :
                 log[k].op = "restrict" /\ valid # "Sometimes" =>
                    /\ k > 1
                    /\ log[k - 1].op = "stays_legal"
                    /\ log[k - 1].p = log[k].p
            /\ \A k \in DOMAIN log :
                 log[k].op = "stays_legal" =>
                    /\ log[k].res =
                         (\A q \in HeldBefore(log, k) :
                             \A q2 \in Images(q, ptype, dim) :
                                 Dist2(log[k].p, q2) > 4 * radius * radius)
                    /\ IF log[k].res = (valid = "Always")
                       THEN /\ k < Len(log)
                            /\ log[k + 1].op = "restrict"
                            /\ log[k + 1].p = log[k].p
                       ELSE /\ k = Len(log)
                            /\ pc = "panicked"
                            /\ outcome \in {"prefill_rejected", "prefill_allowed"}

C4_Witness ==
    /\ pc = "inject"
    /\ valid = "Never"
    /\ Len(prefilled) >= 1
    /\ Len(poisson) >= 1
    /\ adapter.log[Len(adapter.log)].op = "restrict"

\* C5 (Spec), the claim as stated: a Bounded run passes only if every
\* emitted point has every coordinate in [0, 1), injections or not.
C5_ContainmentAlways ==
    (pc = "run_passed" /\ ptype = "Normal") =>
        \A n \in DOMAIN poisson : \A a \in 1 .. dim :
            0 <= poisson[n][a] /\ poisson[n][a] < Unit

\* C5 (Spec), amended: a Bounded run in which the policy yielded no
\* candidate passes only if every emitted point has every coordinate in
\* [0, 1).
C5_Containment ==
    (pc = "run_passed" /\ ptype = "Normal" /\ ~does_prefill) =>
        \A n \in DOMAIN poisson : \A a \in 1 .. dim :
            0 <= poisson[n][a] /\ poisson[n][a] < Unit

C5_Witness ==
    /\ pc = "run_passed"
    /\ ptype = "Normal"
    /\ ~does_prefill
    /\ Len(poisson) >= 2

\* C6 (Spec): the sequence handed to test_poisson, and drained by it, is the
\* emitted points in emission order followed by the prefilled points in
\* injection order under Always, and the emitted points alone otherwise.
C6_FinalValidationSet ==
    Checked =>
        LET want == IF valid = "Always" THEN poisson \o prefilled ELSE poisson
        IN  /\ [n \in DOMAIN iter |-> iter[n].v] = want
            /\ vecs = want

C6_Witness ==
    /\ pc = "run_passed"
    /\ valid = "Always"
    /\ Len(prefilled) >= 1
    /\ Len(poisson) >= 1

\* runs of the two passes that have not been started yet
RunsLeft == i + 1 < seeds \/ algo = "Ebeida"

\* C7 (Spec), the claim as stated: after a failed assertion the harness goes
\* on with the runs that are left.
C7_OnlySeedAborted == (pc = "panicked" /\ RunsLeft) => ENABLED Next

\* C7 (Spec), amended: a failed assertion ends the whole check: no step
\* follows it, so no later seed index and no later algorithm pass is run;
\* every failure is a panic, and no run is started twice.
C7_FailureAborts ==
    /\ pc = "panicked" => ~ENABLED Next
    /\ outcome \notin {"none", "ok"} => pc = "panicked"
    /\ \A a \in DOMAIN runs : \A b \in DOMAIN runs : a # b => runs[a] # runs[b]

C7_Witness ==
    /\ pc = "panicked"
    /\ algo = "Ebeida"
    /\ i + 1 < seeds

\* C8 (SpecPoisson): under Perioditic every offset vector of {-1,0,1}^d
\* comes from exactly one n in [0, 3^d), and the expanded set holds, with
\* multiplicity, exactly the copies point + offset of the m points (m * 3^d
\* elements); under Normal the expanded set is the original one.
C8_PeriodicTiler ==
    (Checked /\ Expanded(outcome)) =>
        IF ptype = "Perioditic"
        THEN LET Offs == [1 .. dim -> {-1, 0, 1}]
                 Copy(k, o) == [a \in 1 .. dim |-> vecs[k][a] + o[a] * Unit]
             IN  /\ \A o \in Offs :
                      Cardinality({n \in 0 .. 3 ^ dim - 1 :
                          Offset(n, dim) = [a \in 1 .. dim |-> o[a] * Unit]}) = 1
                 /\ Len(tiled) = Len(vecs) * 3 ^ dim
                 /\ \A k \in DOMAIN vecs : \A o \in Offs :
                      Count(tiled, Copy(k, o)) =
                          Cardinality({ko \in (DOMAIN vecs) \X Offs :
                              Copy(ko[1], ko[2]) = Copy(k, o)})
        ELSE tiled = vecs

C8_Witness ==
    /\ Checked
    /\ Expanded(outcome)
    /\ ptype = "Perioditic"
    /\ dim = 2
    /\ Len(vecs) = 2

\* C9 (SpecSeed), the claim as stated: two distinct run indices never have
\* the same seed.
C9_DistinctSeeds ==
    pc = "inject" => \A a \in derived : a[1] # i => a[2] # seed

\* C10 (Spec), the claim as stated: a run passes only if no two elements of
\* the collected set have identical coordinates.
C10_CoincidentFails ==
    pc = "run_passed" =>
        \A a \in DOMAIN vecs : \A b \in DOMAIN vecs : a # b => vecs[a] # vecs[b]

\* the positions of the elements of iter whose size hint has no upper bound
Unbounded == {n \in DOMAIN iter : iter[n].hint.high = <<>>}

\* C11: an element of the validation sequence whose size hint has no upper
\* bound fails the run there, whatever the hints recorded before it are: no
\* bound is compared, the elements after it are not drained, and the message
\* names the number of hints recorded before it (its position from 0) and
\* the algorithm.
C11_MissingHint ==
    Checked =>
        /\ (outcome = "no_hint") = (Unbounded # {})
        /\ Unbounded # {} =>
              /\ report = <<Min(Unbounded) - 1, algo>>
              /\ Len(hints) = Min(Unbounded) - 1
              /\ Len(vecs) = Min(Unbounded) - 1
              /\ pc = "panicked"
        /\ Unbounded = {} => report = <<>>

\* the second element has no upper bound and the hint recorded for the first
\* leaves no room for it
C11_Witness ==
    /\ Checked
    /\ outcome = "no_hint"
    /\ report = <<1, algo>>
    /\ Len(iter) = 2
    /\ hints[1][2] = 0

\* the run has its generator and its policy
Running == pc \in {"inject", "pull", "run_passed", "panicked"}

\* the pulls that yielded a point among the first n operations of log
Emissions(log, n) == {k \in 1 .. n : log[k].op = "next" /\ log[k].res}

\* what last holds after the first n operations of log
LastEmitted(log, n) ==
    IF Emissions(log, n) = {} THEN <<>>
    ELSE <<log[CHOOSE k \in Emissions(log, n) :
                   \A j \in Emissions(log, n) : j <= k].p>>

\* C12 (Spec): in each run the factory is called once, first of all and with
\* the radius; every call of the policy passes None before the first point
\* is emitted and the most recently emitted point afterwards; a call that
\* yields a candidate is followed by another call before any pull, a call
\* that yields nothing is followed at once by a pull, every pull (the one
\* that reports the end too) comes right after a call that yielded nothing,
\* and nothing follows the pull that reports the end.
C12_InjectorProtocol ==
    Running =>
        LET log == adapter.log
            pulls == {j \in DOMAIN log : log[j].op = "next"}
        IN  /\ Len(calls) >= 1
            /\ calls[1] = [op |-> "prefiller", arg |-> <<radius>>, ret |-> <<>>, at |-> 0]
            /\ \A k \in 2 .. Len(calls) :
                 /\ calls[k].op = "prefill"
                 /\ calls[k].arg = LastEmitted(log, calls[k].at)
                 /\ calls[k - 1].at <= calls[k].at
                 /\ calls[k].ret # <<>> =>
                      \/ k < Len(calls) /\ \A j \in pulls :
                            ~(calls[k].at < j /\ j <= calls[k + 1].at)
                      \/ k = Len(calls) /\ pc \in {"inject", "panicked"}
                                        /\ \A j \in pulls : j <= calls[k].at
                 /\ calls[k].ret = <<>> =>
                      \/ calls[k].at + 1 \in pulls
                      \/ k = Len(calls) /\ pc = "pull" /\ calls[k].at = Len(log)
            /\ \A j \in pulls :
                 /\ \E k \in 2 .. Len(calls) : calls[k].ret = <<>> /\ calls[k].at = j - 1
                 /\ ~log[j].res =>
                      /\ j = Len(log)
                      /\ \A k \in DOMAIN calls : calls[k].at < j
            /\ pc \in {"run_passed", "panicked"} /\ Checked =>
                 /\ log # <<>>
                 /\ ~log[Len(log)].res

\* a run that is over in which the policy was called with None and with an
\* emitted point, and yielded candidates between two pulls
C12_Witness ==
    /\ pc = "run_passed"
    /\ Len(poisson) >= 2
    /\ \E k \in 2 .. Len(calls) : calls[k].arg = <<>> /\ calls[k].ret # <<>>
    /\ \E k \in 2 .. Len(calls) : calls[k].arg = <<poisson[1]>> /\ calls[k].ret = <<>>

\* the run repeats the recorded one so far
Repeating ==
    /\ seed = first.seed
    /\ Len(adapter.log) <= Len(first.log)
    /\ adapter.log = SubSeq(first.log, 1, Len(adapter.log))
    /\ Len(poisson) <= Len(first.poisson)
    /\ poisson = SubSeq(first.poisson, 1, Len(poisson))
    /\ Len(adapter.hints) <= Len(first.hints)
    /\ adapter.hints = SubSeq(first.hints, 1, Len(adapter.hints))

\* the run that is over is the recorded one
Repeated ==
    /\ seed = first.seed
    /\ adapter.log = first.log
    /\ poisson = first.poisson
    /\ adapter.hints = first.hints
    /\ outcome = first.outcome

\* C13 (SpecSamples): with the policy that always yields nothing the only
\* operations on the generator are the pulls, does_prefill stays false and
\* the prefilled list stays empty, whatever the mode; and the run carried
\* out by test_with_samples applies the same operations to the generator,
\* emits the same points, sees the same hints and ends the same way.
C13_NoInjector ==
    Running =>
        /\ \A k \in 2 .. Len(calls) : calls[k].ret = <<>>
        /\ \A k \in DOMAIN adapter.log : adapter.log[k].op = "next"
        /\ adapter.restricted = <<>>
        /\ adapter.emitted = poisson
        /\ ~does_prefill
        /\ prefilled = <<>>
        /\ pc \in {"run_passed", "panicked"} => iter = ChainIter(poisson)
        /\ first # <<>> =>
             /\ Repeating
             /\ pc \in {"run_passed", "panicked"} => Repeated /\ iter = first.iter

\* test_with_samples has carried out a run of two points that was first
\* carried out under Never
C13_Witness ==
    /\ first # <<>>
    /\ first.valid = "Never"
    /\ valid = "Always"
    /\ pc = "run_passed"
    /\ Len(poisson) >= 2
    /\ Len(calls) >= 4

\* C14 (SpecTwice): a run carried out a second time for the same seed
\* index, parameters, algorithm and injector derives the same seed, applies
\* at every step the operations of the first run to the generator and makes
\* the same calls of the policy; when it is over, the operations, the
\* emitted points, the hints, the validation set and the outcome are those
\* of the first run.
C14_Determinism ==
    first # <<>> /\ Running =>
        /\ Repeating
        /\ Len(calls) <= Len(first.calls)
        /\ calls = SubSeq(first.calls, 1, Len(calls))
        /\ pc \in {"run_passed", "panicked"} =>
             /\ Repeated
             /\ calls = first.calls
             /\ prefilled = first.prefilled
             /\ does_prefill = first.does_prefill
             /\ iter = first.iter

\* the second run is over, after pulls and injections
C14_Witness ==
    /\ first # <<>>
    /\ pc = "run_passed"
    /\ Len(poisson) >= 2
    /\ Len(prefilled) >= 1
    /\ Len(runs) = 2

\* the run has just been set up: the factory was called, the policy not yet
Started == pc = "inject" /\ Len(calls) = 1

\* C15 (Spec): between two runs, and between the two passes, none of the
\* locals of a run is left; a run that has just been set up holds the seed of
\* its index, a generator to which nothing was applied, a policy just made
\* by the factory, empty lists, no last point and a lowered flag, whatever
\* the runs before it did.
C15_CrossRunIsolation ==
    /\ pc \in {"loop", "seed", "done"} => NoRun /\ NoCheck
    /\ Running => runs[Len(runs)] = <<algo, i>>
    /\ Started =>
         /\ seed = Seed(i)
         /\ \E h \in GenHints : adapter = NewAdapter(h)
         /\ prefill = NewPolicy(prefiller, radius)
         /\ poisson = <<>>
         /\ prefilled = <<>>
         /\ last = <<>>
         /\ ~does_prefill
         /\ NoCheck

\* the first run of the Bridson pass has just been set up, after the runs
\* of the Ebeida pass
C15_Witness ==
    /\ Started
    /\ algo = "Bridson"
    /\ i = 0
    /\ Len(runs) = seeds + 1

\* the calls of the policy before the k-th call that yielded a candidate
Yielded(k) == {j \in 2 .. k - 1 : calls[j].ret # <<>>}

\* the point the policy remembers when the k-th call is made
Remembered(k) ==
    IF Yielded(k) = {} THEN <<>>
    ELSE calls[CHOOSE j \in Yielded(k) : \A n \in Yielded(k) : n <= j].arg

\* C16 (SpecTooClose): the policy of multiple_too_close_invalid yields
\* nothing when called with None; called with a point other than the one it
\* remembers it yields one candidate, closer than radius to that point, and
\* remembers the point; the call that follows passes the same point and
\* yields nothing. So no drain loop makes more than two calls or injects
\* more than one candidate, and the candidates injected are never more than
\* the points emitted.
C16_TooClosePolicy ==
    Running =>
        /\ \A k \in 2 .. Len(calls) :
             /\ calls[k].arg = <<>> => calls[k].ret = <<>>
             /\ calls[k].arg # <<>> =>
                  IF calls[k].arg = Remembered(k)
                  THEN calls[k].ret = <<>>
                  ELSE /\ Len(calls[k].ret) = 1
                       /\ Dist2(calls[k].ret[1], calls[k].arg[1]) < radius * radius
             /\ calls[k].ret # <<>> /\ k < Len(calls) =>
                  /\ calls[k + 1].arg = calls[k].arg
                  /\ calls[k + 1].ret = <<>>
             /\ k + 2 <= Len(calls) =>
                  \E j \in DOMAIN adapter.log :
                      /\ adapter.log[j].op = "next"
                      /\ calls[k].at < j
                      /\ j <= calls[k + 2].at
        /\ prefill.last = Remembered(Len(calls) + 1)
        /\ Cardinality(Yielded(Len(calls) + 1)) <= Len(poisson)
        /\ Len(prefilled) <= Len(poisson)
        /\ pc = "inject" /\ calls[Len(calls)].ret # <<>> => ENABLED InjectNone /\ ~ENABLED InjectSome

\* a run that is over in which each of two emitted points was followed by
\* one injection
C16_Witness ==
    /\ pc \in {"run_passed", "panicked"}
    /\ Len(poisson) = 2
    /\ Len(prefilled) = 2
    /\ Len(calls) = 6

\* the policy yielded a candidate in this run
Injected == \E k \in 2 .. Len(calls) : calls[k].ret # <<>>

\* C17 (Spec): the flag handed to test_poisson says whether the policy
\* yielded a candidate; test_poisson fails on the range exactly when it did
\* not and a point of the validation set, as drained and before any tiling,
\* has a coordinate outside [0, 1), under Normal and under Perioditic alike;
\* once a candidate was yielded no run fails on the range.
C17_RangeGate ==
    Checked =>
        /\ does_prefill = Injected
        /\ (outcome = "out_of_range") =
              (~Injected /\ \E n \in DOMAIN vecs : ~InRange(vecs[n]))
        /\ vecs = FinalSet(poisson, prefilled, valid)
        /\ outcome = "out_of_range" => tiled = <<>>

\* a periodic run without candidates fails on the range
C17_Witness ==
    /\ Checked
    /\ ptype = "Perioditic"
    /\ outcome = "out_of_range"
    /\ ~does_prefill
    /\ Len(vecs) >= 2
====
